---- MODULE Spec2Model ----
(***************************************************************************)
(* Model of the ADB monitoring workflow (adb-workflow.py) and of the parts *)
(* of the scraper (adb_scraper.py) the workflow relies on: fetching a      *)
(* listing, saving it as a CSV snapshot, resolving the previous snapshot   *)
(* of a lineage from the directory listing, comparing by Title, sending    *)
(* one digest or one error notification, and the polling loop of main().   *)
(*                                                                         *)
(* Strings that the code builds and compares (file names, timestamps) are  *)
(* sequences of tokens: the pieces between underscores.  A token is a word *)
(* or a zero-padded number; digits sort before letters, as in Python's     *)
(* string comparison.                                                      *)
(***************************************************************************)
EXTENDS Integers, Sequences, FiniteSets, TLC

----------------------------------------------------------------------------
(* Bounds *)

\* the wall clock stops advancing here
MaxClock == 4
\* clock ticks in one day (the time-of-day part of a timestamp is a tick in
\* 0 .. SlotsPerDay-1)
SlotsPerDay == 2
\* longest listing compared under SpecDiff
MaxLen == 2

----------------------------------------------------------------------------
(* Tokens and strings *)

Word(s) == [w |-> s, n |-> 0]
Num(k) == [w |-> "", n |-> k]

\* alphabetical order of the words that occur in filter names
WordOrder == <<"india", "unnamed", "water">>

WordIdx(s) == CHOOSE i \in 1..Len(WordOrder) : WordOrder[i] = s

\* a < b for two tokens, as Python compares the strings character by
\* character: digits before letters, numbers of equal width by value
TokLess(a, b) ==
    IF a.w = "" /\ b.w = "" THEN a.n < b.n
    ELSE IF a.w = "" THEN TRUE
    ELSE IF b.w = "" THEN FALSE
    ELSE WordIdx(a.w) < WordIdx(b.w)

RECURSIVE StrGreater(_, _)
\* a > b for two underscore-joined strings
StrGreater(a, b) ==
    IF a = <<>> THEN FALSE
    ELSE IF b = <<>> THEN TRUE
    ELSE IF Head(a) = Head(b) THEN StrGreater(Tail(a), Tail(b))
    ELSE TokLess(Head(b), Head(a))

\* datetime.now().strftime("%Y%m%d_%H%M%S"): a date part and a time part
strftime(t) == <<Num(t \div SlotsPerDay), Num(t % SlotsPerDay)>>

----------------------------------------------------------------------------
(* Configuration *)

India == <<Word("india")>>
IndiaWater == <<Word("india"), Word("water")>>

Named(nm) == [hasName |-> TRUE, name |-> nm]
NoName == [hasName |-> FALSE, name |-> <<>>]

\* the contents config.json can have: search filters per category, whether
\* e-mail is enabled, and the schedule
Configs ==
    { [tenders |-> <<Named(India), Named(IndiaWater)>>,
       projects |-> <<Named(India)>>,
       email_enabled |-> TRUE, frequency |-> "weekly", time |-> 0],
      [tenders |-> <<Named(IndiaWater), Named(India)>>,
       projects |-> <<>>,
       email_enabled |-> FALSE, frequency |-> "daily", time |-> 1],
      [tenders |-> <<NoName, NoName>>,
       projects |-> <<Named(IndiaWater)>>,
       email_enabled |-> TRUE, frequency |-> "hourly", time |-> 1] }

\* tender_filter.get("name", "unnamed")
filter_name(f) == IF f.hasName THEN f.name ELSE <<Word("unnamed")>>

\* the FilterSpecs of a run in processing order: the tenders loop, then the
\* projects loop
Lineages(cfg) ==
    [i \in 1..(Len(cfg.tenders) + Len(cfg.projects)) |->
        IF i <= Len(cfg.tenders)
        THEN [cat |-> "tenders", name |-> filter_name(cfg.tenders[i])]
        ELSE [cat |-> "projects",
              name |-> filter_name(cfg.projects[i - Len(cfg.tenders)])]]

----------------------------------------------------------------------------
(* Records, listings and the CSV round trip *)

Titles == {"X", "Y", "Z", "", "7"}

\* Titles that pandas.read_csv reads back as NaN / as a number
NaTitles == {""}
NumericTitles == {"7"}

\* the listings a fetch returns in the workflow model (the comparison itself
\* is checked over all listings up to MaxLen under SpecDiff)
FetchResults ==
    { <<"X", "Y">>, <<"X", "Y", "Z">>, <<"", "X">> }

RECURSIVE SeqsUpTo(_, _)
SeqsUpTo(S, n) ==
    IF n = 0 THEN {<<>>}
    ELSE LET shorter == SeqsUpTo(S, n - 1)
         IN shorter \cup {Append(s, x) : s \in {q \in shorter : Len(q) = n - 1}, x \in S}

Range(s) == {s[i] : i \in 1..Len(s)}

\* values of the Title column in memory
StrVal(s) == <<"str", s>>
NumVal(s) == <<"num", s>>
NaNVal == <<"nan", "">>

\* the Title column of a DataFrame built from scraped records: strings
TitleColumn(rows) == [i \in 1..Len(rows) |-> StrVal(rows[i])]

\* DataFrame.to_csv followed by pandas.read_csv: an empty field comes back
\* as NaN, and a column whose fields are all numbers or empty comes back as
\* numbers
read_csv(rows) ==
    LET numeric == \A i \in 1..Len(rows) : rows[i] \in NumericTitles \cup NaTitles
    IN [i \in 1..Len(rows) |->
          IF rows[i] \in NaTitles THEN NaNVal
          ELSE IF numeric THEN NumVal(rows[i])
          ELSE StrVal(rows[i])]

----------------------------------------------------------------------------
(* File names and the snapshot directory *)

\* the base name of f"{output_dir}/tenders_{filter_name}_{timestamp}.csv"
FileName(cat, nm, ts) == [stem |-> <<Word(cat)>> \o nm \o ts, ext |-> "csv"]

\* previous_file = None
NoFile == [stem |-> <<>>, ext |-> ""]

\* the string f"tenders_{filter_name}_" without its final underscore
Prefix(cat, nm) == <<Word(cat)>> \o nm

\* file.startswith(f"tenders_{filter_name}_")
StartsWith(file, prefix) ==
    /\ Len(file.stem) > Len(prefix)
    /\ SubSeq(file.stem, 1, Len(prefix)) = prefix

\* file.endswith(".csv")
EndsWithCsv(file) == file.ext = "csv"

\* file.replace(f"tenders_{filter_name}_", "").replace(".csv", "")
file_timestamp(file, prefix) == SubSeq(file.stem, Len(prefix) + 1, Len(file.stem))

\* the directory is a set of files, each with the Title column it holds
Files(dir) == {r.file : r \in dir}

RowsOf(dir, file) == (CHOOSE r \in dir : r.file = file).rows

\* results.to_csv(filename, index=False): creates or replaces the file
to_csv(dir, file, rows) ==
    {r \in dir : r.file # file} \cup {[file |-> file, rows |-> rows]}

RECURSIVE SetToSeq(_)
SetToSeq(S) ==
    IF S = {} THEN <<>>
    ELSE LET x == CHOOSE y \in S : TRUE IN <<x>> \o SetToSeq(S \ {x})

Reverse(s) == [i \in 1..Len(s) |-> s[Len(s) + 1 - i]]

Rotate(s, k) == [i \in 1..Len(s) |-> s[((i + k - 1) % Len(s)) + 1]]

\* os.listdir(output_dir): the entries in arbitrary order.  The orders drawn
\* are the rotations of one listing and of its reverse, so every entry comes
\* first in some listing and last in another.
listdir(dir) ==
    LET base == SetToSeq(Files(dir))
    IN IF base = <<>> THEN {<<>>}
       ELSE {Rotate(base, k) : k \in 0..(Len(base) - 1)}
            \cup {Rotate(Reverse(base), k) : k \in 0..(Len(base) - 1)}

\* ScanStep without the comparison of timestamps: the matching file listed
\* last wins
ScanStep_last_listed(file, prefix, output_file, previous_file) ==
    IF /\ StartsWith(file, prefix)
       /\ EndsWithCsv(file)
       /\ file # output_file
    THEN file
    ELSE previous_file

\* one iteration of the loop over os.listdir(output_dir)
ScanStep(file, prefix, output_file, previous_file) ==
    IF /\ StartsWith(file, prefix)
       /\ EndsWithCsv(file)
       /\ file # output_file
       /\ \/ previous_file = NoFile
          \/ StrGreater(file_timestamp(file, prefix),
                        file_timestamp(previous_file, prefix))
    THEN file
    ELSE previous_file

RECURSIVE ScanListing(_, _, _, _)
\* the loop that resolves previous_file
ScanListing(listing, prefix, output_file, previous_file) ==
    IF listing = <<>> THEN previous_file
    ELSE ScanListing(Tail(listing), prefix, output_file,
                     ScanStep(Head(listing), prefix, output_file, previous_file))

\* current_df[current_df['Title'].isin(new_ids)]
SelectNew(current_df, new_ids) ==
    SelectSeq(current_df, LAMBDA t : StrVal(t) \in new_ids)

\* compare_with_previous with a failed comparison reporting every current
\* record
compare_with_previous_all_new(current_df, previous_file, d, readOk) ==
    IF previous_file \in Files(d)
    THEN IF ~readOk \/ current_df = <<>> THEN current_df
         ELSE LET previous_df == read_csv(RowsOf(d, previous_file))
                  current_ids == Range(TitleColumn(current_df))
                  previous_ids == Range(previous_df)
                  new_ids == current_ids \ previous_ids
              IN SelectNew(current_df, new_ids)
    ELSE current_df

\* compare_with_previous(current_df, previous_file).  An exception while
\* reading the previous file (readOk = FALSE) or a DataFrame without a Title
\* column (an empty one) makes it return an empty DataFrame.
compare_with_previous(current_df, previous_file, d, readOk) ==
    IF previous_file \in Files(d)
    THEN IF ~readOk \/ current_df = <<>> THEN <<>>
         ELSE LET previous_df == read_csv(RowsOf(d, previous_file))
                  current_ids == Range(TitleColumn(current_df))
                  previous_ids == Range(previous_df)
                  new_ids == current_ids \ previous_ids
              IN SelectNew(current_df, new_ids)
    ELSE current_df

----------------------------------------------------------------------------
(* Schedule *)

DaysPerWeek == 7
Monday == 1

\* the first tick after t at which the registered job is due
NextDue(frequency, time, t) ==
    LET due(u) == /\ u % SlotsPerDay = time % SlotsPerDay
                  /\ frequency = "weekly" => (u \div SlotsPerDay) % DaysPerWeek = Monday
        horizon == (t + 1)..(t + SlotsPerDay * DaysPerWeek)
    IN CHOOSE u \in horizon : due(u) /\ \A v \in horizon : due(v) => u <= v

----------------------------------------------------------------------------
(* State *)

VARIABLES
    pc,                 \* position of main(): "main", "initial", "run", "poll", "sleep", "crashed"
    caller,             \* who called run_job: "main" or "run_pending"
    now,                \* the wall clock
    job,                \* the job registered with the schedule library
    config_file,        \* the content of config.json
    config,             \* run_job: config
    dir,                \* the files in output_dir
    session,            \* the number of scraper browsers that are open
    timestamp,          \* run_job: timestamp
    idx,                \* run_job: position in the tenders / projects loops
    new_items_found,    \* run_job: new_items_found
    notification_body,  \* run_job: notification_body
    attachments,        \* run_job: attachments
    calls,              \* the send_email_notification calls of the current or last run
    outcome,            \* how the current or last run ended
    added,              \* history: a lineage of this run had no previous file
                        \* or brought a Title that its previous file lacks
    last                \* the lineage step or comparison made last

vars == <<pc, caller, now, job, config_file, config, dir, session, timestamp,
          idx, new_items_found, notification_body, attachments, calls,
          outcome, added, last>>

NoJob == [registered |-> FALSE, frequency |-> "", time |-> 0, next_run |-> 0]

NoConfig == [tenders |-> <<>>, projects |-> <<>>, email_enabled |-> FALSE,
             frequency |-> "", time |-> 0]

NoLast == [kind |-> "none", run |-> <<>>, cat |-> "", name |-> <<>>, results |-> <<>>,
           output_file |-> NoFile, saved |-> FALSE,
           previous_file |-> NoFile, readOk |-> TRUE, new_items |-> <<>>]

Init ==
    /\ pc = "main"
    /\ caller = "main"
    /\ now = 0
    /\ job = NoJob
    /\ config_file \in Configs
    /\ config = NoConfig
    /\ dir = {}
    /\ session = 0
    /\ timestamp = <<>>
    /\ idx = 0
    /\ new_items_found = FALSE
    /\ notification_body = <<>>
    /\ attachments = <<>>
    /\ calls = <<>>
    /\ outcome = "none"
    /\ added = FALSE
    /\ last = NoLast

----------------------------------------------------------------------------
(* Operations *)

\* schedule.every().day.at(run_time).do(run_job), or every().monday for
\* "weekly": the job the schedule library then holds
every(frequency, run_time, t) ==
    [registered |-> TRUE, frequency |-> frequency, time |-> run_time,
     next_run |-> NextDue(frequency, run_time, t)]

\* registered_jobs with the second test written as "if" instead of "elif":
\* "daily" registers its job and then runs into the else branch as well
registered_jobs_if_if(cfg, t) ==
    (IF cfg.frequency = "daily" THEN <<every("daily", cfg.time, t)>> ELSE <<>>)
        \o (IF cfg.frequency = "weekly"
            THEN <<every("weekly", cfg.time, t)>>
            ELSE <<every("daily", cfg.time, t)>>)

\* the jobs that setup_schedule() registers with the schedule library
registered_jobs(cfg, t) ==
    IF cfg.frequency = "daily" THEN <<every("daily", cfg.time, t)>>
    ELSE IF cfg.frequency = "weekly" THEN <<every("weekly", cfg.time, t)>>
    ELSE <<every("daily", cfg.time, t)>>

\* setup_schedule(): one job, daily unless the frequency is "weekly"
setup_schedule(cfg, t) == registered_jobs(cfg, t)[1]

\* main() up to the initial run
SetupSchedule ==
    /\ pc = "main"
    /\ job' = setup_schedule(config_file, now)
    /\ pc' = "initial"
    /\ UNCHANGED <<caller, now, config_file, config, dir, session, timestamp,
                   idx, new_items_found, notification_body, attachments,
                   calls, outcome, added, last>>

\* send_email_notification(subject, body, attachments): a no-op when e-mail
\* is disabled; an SMTP error is logged and swallowed
send_email_notification(subject, body, atts, smtpOk) ==
    [subject |-> subject, body |-> body, attachments |-> atts,
     sent |-> config_file.email_enabled /\ smtpOk]

\* the start of run_job(): load the config, create the output directory,
\* take the timestamp and start the scraper.  None of this is inside the
\* try block, so an exception here leaves run_job and its caller.
BeginRun(who) ==
    /\ caller' = who
    /\ calls' = <<>>
    /\ added' = FALSE
    /\ last' = NoLast
    /\ \E setup \in {"ok", "makedirs raises", "webdriver raises"} :
         IF setup = "ok"
         THEN /\ pc' = "run"
              /\ config' = config_file
              /\ timestamp' = strftime(now)
              /\ session' = session + 1
              /\ idx' = 1
              /\ new_items_found' = FALSE
              /\ notification_body' = <<>>
              /\ attachments' = <<>>
              /\ outcome' = "running"
         ELSE /\ pc' = "crashed"
              /\ outcome' = setup
              /\ UNCHANGED <<config, timestamp, session, idx, new_items_found,
                             notification_body, attachments>>
    /\ UNCHANGED <<now, job, config_file, dir>>

\* main(): "Run job immediately once"
InitialRun ==
    /\ pc = "initial"
    /\ BeginRun("main")

\* RunPendingDue running the job from a second thread, also while a run is
\* in progress
RunPendingDue_concurrent ==
    /\ pc \in {"poll", "run"}
    /\ now >= job.next_run
    /\ BeginRun("run_pending")

\* RunPendingDue running the job at every poll, due or not
RunPendingDue_always ==
    /\ pc = "poll"
    /\ BeginRun("run_pending")

\* schedule.run_pending() when the job is due
RunPendingDue ==
    /\ pc = "poll"
    /\ now >= job.next_run
    /\ BeginRun("run_pending")

\* schedule.run_pending() when the job is not due
RunPendingIdle ==
    /\ pc = "poll"
    /\ now < job.next_run
    /\ pc' = "sleep"
    /\ UNCHANGED <<caller, now, job, config_file, config, dir, session,
                   timestamp, idx, new_items_found, notification_body,
                   attachments, calls, outcome, added, last>>

\* time.sleep(60)
Sleep ==
    /\ pc = "sleep"
    /\ now < MaxClock
    /\ now' = now + 1
    /\ pc' = "poll"
    /\ UNCHANGED <<caller, job, config_file, config, dir, session, timestamp,
                   idx, new_items_found, notification_body, attachments,
                   calls, outcome, added, last>>

\* Return with the job rescheduled from the time it was due instead of from
\* the time the run ended, so that elapsed trigger times are run one by one
Return_backfills(t) ==
    /\ session' = session - 1
    /\ pc' = IF caller = "main" THEN "poll" ELSE "sleep"
    /\ job' = IF caller = "main" THEN job
              ELSE [job EXCEPT !.next_run =
                        NextDue(job.frequency, job.time, job.next_run)]
    /\ idx' = 0
    /\ new_items_found' = FALSE
    /\ notification_body' = <<>>
    /\ attachments' = <<>>

\* Return without the finally block: the scraper is left open
Return_no_close(t) ==
    /\ session' = session
    /\ pc' = IF caller = "main" THEN "poll" ELSE "sleep"
    /\ job' = IF caller = "main" THEN job
              ELSE [job EXCEPT !.next_run = NextDue(job.frequency, job.time, t)]
    /\ idx' = 0
    /\ new_items_found' = FALSE
    /\ notification_body' = <<>>
    /\ attachments' = <<>>

\* run_job() returns: scraper.close() in the finally block, then back to
\* main() or to run_pending(), which schedules the job's next run
Return(t) ==
    /\ session' = session - 1
    /\ pc' = IF caller = "main" THEN "poll" ELSE "sleep"
    /\ job' = IF caller = "main" THEN job
              ELSE [job EXCEPT !.next_run = NextDue(job.frequency, job.time, t)]
    /\ idx' = 0
    /\ new_items_found' = FALSE
    /\ notification_body' = <<>>
    /\ attachments' = <<>>

\* the FilterSpec the tenders / projects loop of run_job is at
Current == Lineages(config)[idx]

InLoop == pc = "run" /\ idx >= 1 /\ idx <= Len(Lineages(config))

\* FetchNothing with the fetch error propagating out of the scraper into
\* run_job's except block
FetchNothing_raises ==
    /\ InLoop
    /\ \E why \in {"fetch error", "no results"} :
         IF why = "no results"
         THEN /\ now < MaxClock
              /\ now' = now + 1
              /\ last' = [NoLast EXCEPT !.kind = why, !.run = timestamp,
                                        !.cat = Current.cat, !.name = Current.name]
              /\ idx' = idx + 1
              /\ UNCHANGED <<pc, job, session, new_items_found,
                             notification_body, attachments, calls, outcome>>
         ELSE /\ now' = now
              /\ last' = [NoLast EXCEPT !.kind = why, !.run = timestamp,
                                        !.cat = Current.cat, !.name = Current.name]
              /\ \E smtpOk \in BOOLEAN :
                   calls' = Append(calls,
                              [subject |-> "ADB Monitoring Error",
                               body |-> <<"fetch">>, attachments |-> <<>>,
                               sent |-> config_file.email_enabled /\ smtpOk])
              /\ outcome' = "failed"
              /\ session' = session - 1
              /\ pc' = IF caller = "main" THEN "poll" ELSE "sleep"
              /\ job' = IF caller = "main" THEN job
                        ELSE [job EXCEPT !.next_run =
                                  NextDue(job.frequency, job.time, now)]
              /\ idx' = 0
              /\ new_items_found' = FALSE
              /\ notification_body' = <<>>
              /\ attachments' = <<>>
    /\ UNCHANGED <<caller, config_file, config, dir, timestamp, added>>

\* FetchNothing with an empty result ending the loop over the filters
FetchNothing_breaks ==
    /\ InLoop
    /\ \E why \in {"fetch error", "no results"} :
         /\ IF why = "no results"
            THEN now < MaxClock /\ now' = now + 1
            ELSE now' = now
         /\ last' = [NoLast EXCEPT !.kind = why, !.run = timestamp,
                                   !.cat = Current.cat, !.name = Current.name]
    /\ idx' = Len(Lineages(config)) + 1
    /\ UNCHANGED <<pc, caller, job, config_file, config, dir, session,
                   timestamp, new_items_found, notification_body,
                   attachments, calls, outcome, added>>

\* scraper.search_tenders / search_projects returns an empty DataFrame:
\* an exception inside the search is caught there and turned into an empty
\* result, or the search found nothing.  run_job skips the lineage.
FetchNothing ==
    /\ InLoop
    /\ \E why \in {"fetch error", "no results"} :
         /\ IF why = "no results"
            THEN now < MaxClock /\ now' = now + 1
            ELSE now' = now
         /\ last' = [NoLast EXCEPT !.kind = why, !.run = timestamp,
                                   !.cat = Current.cat, !.name = Current.name]
    /\ idx' = idx + 1
    /\ UNCHANGED <<pc, caller, job, config_file, config, dir, session,
                   timestamp, new_items_found, notification_body,
                   attachments, calls, outcome, added>>

\* scraper.save_results_to_csv(results, filename): an exception while
\* writing is logged and swallowed
save_results_to_csv(d, file, rows, saveOk) ==
    IF saveOk THEN to_csv(d, file, rows) ELSE d

\* the lines appended to notification_body for one lineage
BodyEntry(kind, lin, rows) ==
    [kind |-> kind, cat |-> lin.cat, name |-> lin.name,
     count |-> Len(rows), titles |-> IF kind = "new" THEN rows ELSE <<>>]

\* report_new_items with the first-run rule dropped: a lineage without a
\* previous file reports nothing
report_new_items_no_first_run(lin, results, previous_file, d, readOk) ==
    LET new_items == IF previous_file \in Files(d)
                     THEN compare_with_previous(results, previous_file, d, readOk)
                     ELSE <<>>
    IN [kind |-> IF previous_file # NoFile THEN "diff" ELSE "first",
        new_items |-> new_items,
        found |-> new_items # <<>>,
        lines |-> IF new_items # <<>>
                  THEN <<BodyEntry("new", lin, new_items)>>
                  ELSE <<>>]

\* run_job after previous_file is resolved: compare with the previous file,
\* or report the whole result on the first run of the lineage
report_new_items(lin, results, previous_file, d, readOk) ==
    IF previous_file # NoFile
    THEN LET new_items == compare_with_previous(results, previous_file, d, readOk)
         IN [kind |-> "diff", new_items |-> new_items,
             found |-> new_items # <<>>,
             lines |-> IF new_items # <<>>
                       THEN <<BodyEntry("new", lin, new_items)>>
                       ELSE <<>>]
    ELSE [kind |-> "first", new_items |-> results, found |-> TRUE,
          lines |-> <<BodyEntry("first", lin, results)>>]

\* the listing has a Title that the previous snapshot lacks, or there is no
\* previous snapshot
AddsTitle(results, previous_file, d) ==
    \/ previous_file \notin Files(d)
    \/ ~(Range(results) \subseteq Range(RowsOf(d, previous_file)))

\* one iteration of the tenders / projects loop with a non-empty result:
\* save the snapshot, resolve the previous file of the lineage from the
\* directory listing, compare, and record what is new
ProcessResults ==
    /\ InLoop
    /\ now < MaxClock
    /\ now' = now + 1
    /\ \E saveOk \in BOOLEAN :
         LET output_file == FileName(Current.cat, Current.name, timestamp)
             saved == save_results_to_csv(dir, output_file, <<>>, saveOk)
         IN \E listing \in listdir(saved) :
              LET previous_file ==
                      ScanListing(listing, Prefix(Current.cat, Current.name),
                                  output_file, NoFile)
              IN \E results \in FetchResults,
                    readOk \in IF previous_file = NoFile THEN {TRUE} ELSE BOOLEAN :
                   LET dir1 == save_results_to_csv(dir, output_file, results, saveOk)
                       rep == report_new_items(Current, results, previous_file,
                                               dir1, readOk)
                   IN /\ dir' = dir1
                      /\ attachments' = Append(attachments, output_file)
                      /\ new_items_found' = (new_items_found \/ rep.found)
                      /\ added' = (added \/ AddsTitle(results, previous_file, dir1))
                      /\ notification_body' = notification_body \o rep.lines
                      /\ last' = [kind |-> rep.kind, run |-> timestamp,
                                  cat |-> Current.cat, name |-> Current.name,
                                  results |-> results,
                                  output_file |-> output_file, saved |-> saveOk,
                                  previous_file |-> previous_file,
                                  readOk |-> readOk,
                                  new_items |-> rep.new_items]
    /\ idx' = idx + 1
    /\ UNCHANGED <<pc, caller, job, config_file, config, session, timestamp,
                   calls, outcome>>

\* ProcessRaises with the failed run making the job due again at once
ProcessRaises_retries ==
    /\ InLoop
    /\ now < MaxClock
    /\ now' = now + 1
    /\ \E results \in FetchResults, saveOk \in BOOLEAN, smtpOk \in BOOLEAN :
         LET output_file == FileName(Current.cat, Current.name, timestamp)
         IN /\ dir' = save_results_to_csv(dir, output_file, results, saveOk)
            /\ calls' = Append(calls,
                          send_email_notification("ADB Monitoring Error",
                                                  <<"listdir">>, <<>>, smtpOk))
            /\ last' = [NoLast EXCEPT !.kind = "raised", !.run = timestamp,
                                      !.cat = Current.cat, !.name = Current.name,
                                      !.results = results,
                                      !.output_file = output_file,
                                      !.saved = saveOk]
    /\ outcome' = "failed"
    /\ session' = session - 1
    /\ pc' = "poll"
    /\ job' = [job EXCEPT !.next_run = now']
    /\ idx' = 0
    /\ new_items_found' = FALSE
    /\ notification_body' = <<>>
    /\ attachments' = <<>>
    /\ UNCHANGED <<caller, config_file, config, timestamp, added>>

\* an exception inside the try block (here: os.listdir fails after the
\* snapshot was saved): the except block sends one error notification, the
\* finally block closes the scraper, and run_job returns
ProcessRaises ==
    /\ InLoop
    /\ now < MaxClock
    /\ now' = now + 1
    /\ \E results \in FetchResults, saveOk \in BOOLEAN, smtpOk \in BOOLEAN :
         LET output_file == FileName(Current.cat, Current.name, timestamp)
         IN /\ dir' = save_results_to_csv(dir, output_file, results, saveOk)
            /\ calls' = Append(calls,
                          send_email_notification("ADB Monitoring Error",
                                                  <<"listdir">>, <<>>, smtpOk))
            /\ last' = [NoLast EXCEPT !.kind = "raised", !.run = timestamp,
                                      !.cat = Current.cat, !.name = Current.name,
                                      !.results = results,
                                      !.output_file = output_file,
                                      !.saved = saveOk]
    /\ outcome' = "failed"
    /\ Return(now')
    /\ UNCHANGED <<caller, config_file, config, timestamp, added>>

\* send_digest sending one notification per reporting lineage
send_digest_per_lineage(found, body, atts, smtpOk) ==
    [i \in 1..Len(body) |->
        send_email_notification("ADB Monitoring Update - New Items Found",
                                <<body[i]>>, atts, smtpOk)]

\* "Send notification if new items found": one call with the whole body and
\* all attachments, or none
send_digest(found, body, atts, smtpOk) ==
    IF found
    THEN <<send_email_notification("ADB Monitoring Update - New Items Found",
                                   body, atts, smtpOk)>>
    ELSE <<>>

\* Finish with a digest that could not be sent turning the run into a
\* failed one
Finish_escalates ==
    /\ pc = "run"
    /\ idx > Len(Lineages(config))
    /\ \E smtpOk \in BOOLEAN :
         /\ calls' = calls \o send_digest(new_items_found, notification_body,
                                          attachments, smtpOk)
         /\ outcome' = IF new_items_found /\ config_file.email_enabled /\ ~smtpOk
                       THEN "failed" ELSE "success"
    /\ last' = NoLast
    /\ Return(now)
    /\ UNCHANGED <<caller, now, config_file, config, dir, timestamp, added>>

\* the end of run_job(): after both loops, the digest, then the finally block
Finish ==
    /\ pc = "run"
    /\ idx > Len(Lineages(config))
    /\ \E smtpOk \in BOOLEAN :
         calls' = calls \o send_digest(new_items_found, notification_body,
                                       attachments, smtpOk)
    /\ outcome' = "success"
    /\ last' = NoLast
    /\ Return(now)
    /\ UNCHANGED <<caller, now, config_file, config, dir, timestamp, added>>

Next ==
    \/ SetupSchedule
    \/ InitialRun
    \/ RunPendingDue
    \/ RunPendingIdle
    \/ Sleep
    \/ FetchNothing
    \/ ProcessResults
    \/ ProcessRaises
    \/ Finish

Spec == Init /\ [][Next]_vars

----------------------------------------------------------------------------
(* The comparison on its own: every pair of listings up to MaxLen *)

PrevFile == FileName("tenders", India, strftime(0))
MissingFile == FileName("tenders", India, strftime(1))

\* a directory holding one snapshot with any non-empty listing
InitDiff ==
    /\ pc = "compare"
    /\ caller = "main"
    /\ now = 0
    /\ job = NoJob
    /\ config_file \in {c \in Configs : c.frequency = "daily"}
    /\ config = NoConfig
    /\ dir \in {{[file |-> PrevFile, rows |-> A]} :
                  A \in SeqsUpTo(Titles, MaxLen) \ {<<>>}}
    /\ session = 0
    /\ timestamp = <<>>
    /\ idx = 0
    /\ new_items_found = FALSE
    /\ notification_body = <<>>
    /\ attachments = <<>>
    /\ calls = <<>>
    /\ outcome = "none"
    /\ added = FALSE
    /\ last = NoLast

\* the comparison step of run_job for any non-empty listing, against the
\* snapshot, against a file that does not exist, or with no previous file
Compare ==
    /\ pc = "compare"
    /\ \E B \in SeqsUpTo(Titles, MaxLen) \ {<<>>},
          previous_file \in {PrevFile, MissingFile, NoFile},
          readOk \in BOOLEAN :
         LET lin == [cat |-> "tenders", name |-> India]
             rep == report_new_items(lin, B, previous_file, dir, readOk)
         IN /\ new_items_found' = rep.found
            /\ notification_body' = rep.lines
            /\ added' = AddsTitle(B, previous_file, dir)
            /\ last' = [NoLast EXCEPT !.kind = rep.kind, !.cat = lin.cat,
                                      !.name = lin.name, !.results = B,
                                      !.previous_file = previous_file,
                                      !.readOk = readOk,
                                      !.new_items = rep.new_items]
    /\ pc' = "compared"
    /\ UNCHANGED <<caller, now, job, config_file, config, dir, session,
                   timestamp, idx, attachments, calls, outcome>>

NextDiff == Compare

SpecDiff == InitDiff /\ [][NextDiff]_vars

----------------------------------------------------------------------------
(* The workflow with config.json edited while the process runs *)

\* the content of config.json when the process starts
StartupConfig == CHOOSE c \in Configs : c.frequency = "weekly"

InitConfig ==
    /\ Init
    /\ config_file = StartupConfig

\* somebody edits config.json after the schedule is set up
EditConfig ==
    /\ pc \in {"initial", "run", "poll", "sleep"}
    /\ config_file = StartupConfig
    /\ \E c \in Configs \ {config_file} : config_file' = c
    /\ UNCHANGED <<pc, caller, now, job, config, dir, session, timestamp,
                   idx, new_items_found, notification_body, attachments,
                   calls, outcome, added, last>>

NextConfig ==
    \/ SetupSchedule
    \/ InitialRun
    \/ RunPendingDue
    \/ RunPendingIdle
    \/ Sleep
    \/ FetchNothing
    \/ ProcessResults
    \/ ProcessRaises
    \/ Finish
    \/ EditConfig

SpecConfig == InitConfig /\ [][NextConfig]_vars

----------------------------------------------------------------------------
(* The resolution of the previous file on its own: every listing order *)

\* most files in the directory scanned under SpecScan
MaxFiles == 3

\* the snapshot files the directory can hold
ScanFiles ==
    {FileName("tenders", nm, strftime(t)) : nm \in {India, IndiaWater}, t \in 0..MaxClock}
        \cup {FileName("projects", India, strftime(0))}

\* every order in which os.listdir can return the files of S
Perms(S) ==
    {p \in [1..Cardinality(S) -> S] :
        \A i, j \in 1..Cardinality(S) : i # j => p[i] # p[j]}

InitScan ==
    /\ pc = "scan"
    /\ caller = "main"
    /\ now = 0
    /\ job = NoJob
    /\ config_file \in {c \in Configs : c.frequency = "daily"}
    /\ config = NoConfig
    /\ dir \in {{[file |-> f, rows |-> <<"X">>] : f \in F} :
                  F \in {G \in SUBSET ScanFiles : Cardinality(G) <= MaxFiles}}
    /\ session = 0
    /\ timestamp = <<>>
    /\ idx = 0
    /\ new_items_found = FALSE
    /\ notification_body = <<>>
    /\ attachments = <<>>
    /\ calls = <<>>
    /\ outcome = "none"
    /\ added = FALSE
    /\ last = NoLast

\* the loop of run_job that resolves previous_file, for a tenders lineage,
\* any timestamp of the run and any order of the directory listing
Scan ==
    /\ pc = "scan"
    /\ \E nm \in {India, IndiaWater}, t \in 0..MaxClock, listing \in Perms(Files(dir)) :
         LET output_file == FileName("tenders", nm, strftime(t))
         IN last' = [NoLast EXCEPT
                       !.kind = "scan", !.run = strftime(t),
                       !.cat = "tenders", !.name = nm,
                       !.output_file = output_file,
                       !.previous_file =
                           ScanListing(listing, Prefix("tenders", nm),
                                       output_file, NoFile)]
    /\ pc' = "scanned"
    /\ UNCHANGED <<caller, now, job, config_file, config, dir, session,
                   timestamp, idx, new_items_found, notification_body,
                   attachments, calls, outcome, added>>

NextScan == Scan

SpecScan == InitScan /\ [][NextScan]_vars

----------------------------------------------------------------------------
(* The workflow from the polling loop after a startup run that aborted *)

\* the config whose first lineage has a filter name no other name extends
AbortConfig == CHOOSE c \in Configs : c.frequency = "daily"

\* the snapshot the first lineage persisted in the run that aborted
FailedSnapshot ==
    FileName(Lineages(AbortConfig)[1].cat, Lineages(AbortConfig)[1].name, strftime(0))

\* the state main() is in after a startup run at tick 0 in which the first
\* lineage saved its snapshot and reported it (first run) and the directory
\* listing of the second lineage raised
InitAbort ==
    \E R1 \in FetchResults, R2 \in FetchResults, saveOk \in BOOLEAN, smtpOk \in BOOLEAN :
      LET lin2 == Lineages(AbortConfig)[2]
          file2 == FileName(lin2.cat, lin2.name, strftime(0))
      IN /\ pc = "poll"
         /\ caller = "main"
         /\ now = 2
         /\ job = setup_schedule(AbortConfig, 0)
         /\ config_file = AbortConfig
         /\ config = AbortConfig
         /\ dir = save_results_to_csv({[file |-> FailedSnapshot, rows |-> R1]},
                                      file2, R2, saveOk)
         /\ session = 0
         /\ timestamp = strftime(0)
         /\ idx = 0
         /\ new_items_found = FALSE
         /\ notification_body = <<>>
         /\ attachments = <<>>
         /\ calls = <<[subject |-> "ADB Monitoring Error", body |-> <<"listdir">>,
                       attachments |-> <<>>,
                       sent |-> AbortConfig.email_enabled /\ smtpOk]>>
         /\ outcome = "failed"
         /\ added = TRUE
         /\ last = [NoLast EXCEPT !.kind = "raised", !.run = strftime(0),
                                  !.cat = lin2.cat, !.name = lin2.name,
                                  !.results = R2, !.output_file = file2,
                                  !.saved = saveOk]

NextAbort ==
    \/ RunPendingDue
    \/ RunPendingIdle
    \/ Sleep
    \/ FetchNothing
    \/ ProcessResults
    \/ ProcessRaises
    \/ Finish

SpecAbort == InitAbort /\ [][NextAbort]_vars

----------------------------------------------------------------------------
(* setup_schedule on its own: every frequency, time and startup tick *)

\* values the "frequency" entry of config.json can have
Frequencies == {"daily", "weekly", "hourly", "monthly", ""}

ScheduleConfigs ==
    {[c EXCEPT !.frequency = f, !.time = tm] :
        c \in Configs, f \in Frequencies, tm \in 0..(SlotsPerDay - 1)}

InitSchedule ==
    /\ pc = "main"
    /\ caller = "main"
    /\ now \in 0..MaxClock
    /\ job = NoJob
    /\ config_file \in ScheduleConfigs
    /\ config = NoConfig
    /\ dir = {}
    /\ session = 0
    /\ timestamp = <<>>
    /\ idx = 0
    /\ new_items_found = FALSE
    /\ notification_body = <<>>
    /\ attachments = <<>>
    /\ calls = <<>>
    /\ outcome = "none"
    /\ added = FALSE
    /\ last = NoLast

NextSchedule == SetupSchedule

SpecSchedule == InitSchedule /\ [][NextSchedule]_vars

----------------------------------------------------------------------------
(* Properties *)

\* the clock value a timestamp string was formatted from
TickOf(ts) == CHOOSE t \in 0..MaxClock : strftime(t) = ts

\* the ticks at which lineage (cat, nm) has a snapshot in directory d
SnapshotTicks(d, cat, nm) ==
    {t \in 0..MaxClock : FileName(cat, nm, strftime(t)) \in Files(d)}

\* file is a snapshot of lineage (cat, nm)
InLineage(file, cat, nm) ==
    \E t \in 0..MaxClock : file = FileName(cat, nm, strftime(t))

Compared == last.kind \in {"diff", "first"}

\* C1: within a lineage, the previous snapshot a run selects is the persisted
\* snapshot of that lineage with the greatest timestamp strictly less than
\* the run's timestamp, and none exactly when there is no such snapshot.
C1_PreviousIsLatestBefore ==
    (pc = "run" /\ Compared) =>
        LET earlier == {t \in SnapshotTicks(dir, last.cat, last.name) :
                          t < TickOf(last.run)}
        IN IF earlier = {}
           THEN last.previous_file = NoFile
           ELSE last.previous_file =
                  FileName(last.cat, last.name,
                           strftime(CHOOSE t \in earlier : \A u \in earlier : u <= t))

\* C2: the previous snapshot that run_job resolves and compares against
\* belongs to the category and to exactly the filter name of the current
\* snapshot.
C2_PreviousInSameLineage ==
    (pc = "run" /\ last.kind = "diff") =>
        InLineage(last.previous_file, last.cat, last.name)

\* the lines run_job adds to the body when it reports every record of the
\* listing
ReportsAll(l) ==
    /\ l.new_items = l.results
    /\ new_items_found
    /\ Len(notification_body) >= 1
    /\ LET line == notification_body[Len(notification_body)]
       IN /\ line.cat = l.cat
          /\ line.name = l.name
          /\ line.count = Len(l.results)

\* C3: with no previous snapshot (none resolved, or the file does not
\* exist), every record of the current snapshot is reported as new and the
\* lineage counts as having new items.
C3_FirstRunReportsAll ==
    (pc = "compared" /\ last.previous_file \notin Files(dir)) => ReportsAll(last)

C3_Witness ==
    /\ pc = "compared"
    /\ last.previous_file = NoFile
    /\ last.kind = "first"
    /\ Len(last.results) = MaxLen
    /\ last.new_items = last.results

\* the records of listing B whose Title does not occur in listing A, in the
\* order of B
NotIn(B, A) == SelectSeq(B, LAMBDA t : t \notin Range(A))

\* C4: against an existing previous snapshot A, the comparison returns
\* exactly the records of B whose Title does not occur in A, in the order
\* of B.
C4_DiffIsSetDifferenceByTitle ==
    (pc = "compared" /\ last.previous_file \in Files(dir) /\ last.readOk) =>
        last.new_items = NotIn(last.results, RowsOf(dir, last.previous_file))

\* C5: comparing a snapshot with a previous snapshot of identical content
\* yields no new items.
C5_DiffWithItselfIsEmpty ==
    (/\ pc = "compared"
     /\ last.previous_file \in Files(dir)
     /\ last.readOk
     /\ last.results = RowsOf(dir, last.previous_file)) =>
        last.new_items = <<>>

UpdateSubject == "ADB Monitoring Update - New Items Found"
ErrorSubject == "ADB Monitoring Error"

Idle == pc \in {"poll", "sleep"}

\* C6: a run that did not fail makes no notification call while it processes
\* its lineages and, if any lineage produced new records, exactly one call at
\* its end, carrying the lines of all lineages and all attachments; a listing
\* X, Y, Z after a snapshot X, Y yields the one new record Z.
C6_OneDigestPerRun ==
    /\ [](pc = "run" => calls = <<>>)
    /\ []((pc = "run" /\ Compared /\ last.new_items # <<>>) =>
            /\ new_items_found
            /\ Len(notification_body) >= 1
            /\ LET line == notification_body[Len(notification_body)]
               IN /\ line.cat = last.cat
                  /\ line.name = last.name
                  /\ line.count = Len(last.new_items))
    /\ []((/\ pc = "run"
           /\ last.kind = "diff"
           /\ last.readOk
           /\ RowsOf(dir, last.previous_file) = <<"X", "Y">>
           /\ last.results = <<"X", "Y", "Z">>) => last.new_items = <<"Z">>)
    /\ [][(pc = "run" /\ pc' = "run") =>
            /\ new_items_found => new_items_found'
            /\ Len(notification_body') >= Len(notification_body)
            /\ SubSeq(notification_body', 1, Len(notification_body)) = notification_body]_vars
    /\ [][(pc = "run" /\ pc' # "run" /\ outcome' = "success") =>
            IF new_items_found
            THEN /\ Len(calls') = 1
                 /\ calls'[1].subject = UpdateSubject
                 /\ calls'[1].body = notification_body
                 /\ calls'[1].attachments = attachments
            ELSE calls' = <<>>]_vars

C6_Witness ==
    /\ Idle
    /\ outcome = "success"
    /\ Len(calls) = 1
    /\ Len(calls[1].body) >= 2
    /\ \E i \in 1..Len(calls[1].body) :
         calls[1].body[i].kind = "new" /\ calls[1].body[i].titles = <<"Z">>

\* C7: a run in which every compared lineage has a previous snapshot and
\* brings no Title that this snapshot lacks sends no notification.
C7_UnchangedRunSendsNothing ==
    (Idle /\ outcome = "success" /\ ~added) => calls = <<>>

Failures == {"failed", "makedirs raises", "webdriver raises"}

\* C8: after a run that failed, also during its setup, the process is back
\* in the polling loop.
C8_LoopSurvivesFailedRun ==
    (pc # "run" /\ outcome \in Failures) => Idle

\* C9: a run that aborts on a failure has made exactly one notification
\* call, the error notification with the error description and without a
\* digest, and processes no further lineage.
C9_FailedRunSendsOneErrorNotice ==
    (pc # "run" /\ outcome \in Failures) =>
        /\ Len(calls) = 1
        /\ calls[1].subject = ErrorSubject
        /\ calls[1].body # <<>>
        /\ idx = 0

\* the run has three lineages and the step made last was the fetch failure
\* of the second one
FetchFailedAtSecondOfThree ==
    /\ Len(Lineages(config)) = 3
    /\ last.kind = "fetch error"
    /\ last.run = timestamp
    /\ [cat |-> last.cat, name |-> last.name] = Lineages(config)[2]
    /\ Lineages(config)[2] \notin {Lineages(config)[1], Lineages(config)[3]}

\* C10 as stated: when the DataSource fails during lineage 2 of 3, a single
\* failure notification is sent and the run is over.
C10_FetchFailureSendsErrorNotice ==
    FetchFailedAtSecondOfThree =>
        /\ Idle
        /\ Len(calls) = 1
        /\ calls[1].subject = ErrorSubject

\* C10 as amended: when the DataSource fails during lineage 2 of 3, the
\* lineage is skipped as an empty result: the directory keeps every file
\* (lineage 1's snapshot of this run included), no notification is sent for
\* it and the run goes on to lineage 3.  Only an exception that reaches
\* run_job's except block during lineage 2 ends the run, with a single
\* error notification.  No step removes a file, and a run in progress always
\* returns to the polling loop.
C10_FetchFailureSkipsLineage ==
    /\ [][(/\ pc = "run"
           /\ idx = 2
           /\ Len(Lineages(config)) = 3
           /\ last'.kind = "raised") =>
            /\ Len(calls') = 1
            /\ calls'[1].subject = ErrorSubject
            /\ Idle'
            /\ outcome' = "failed"]_vars
    /\ [][(FetchFailedAtSecondOfThree' /\ pc = "run" /\ idx = 2) =>
            /\ dir' = dir
            /\ calls' = <<>>
            /\ pc' = "run"
            /\ idx' = 3
            /\ session' = 1
            /\ outcome' = "running"]_vars
    /\ [][\A r \in dir : r.file \in Files(dir')]_vars
    /\ [][pc = "run" => pc' \in {"run", "poll", "sleep"}]_vars

C10_Witness ==
    /\ FetchFailedAtSecondOfThree
    /\ pc = "run"
    /\ idx = 3
    /\ calls = <<>>
    /\ FileName(Lineages(config)[1].cat, Lineages(config)[1].name, timestamp)
         \in Files(dir)

\* the lineage step made last in this run called save_results_to_csv and
\* the write failed
SaveFailed ==
    /\ last.kind \in {"diff", "first", "raised"}
    /\ last.run = timestamp
    /\ ~last.saved

\* C11: when the snapshot of a lineage cannot be saved, the run is over and
\* has failed: no comparison was made for the lineage, nothing was added to
\* the digest, and exactly one notification, the error notification, was
\* sent.
C11_SaveFailureAbortsRun ==
    SaveFailed =>
        /\ Idle
        /\ outcome = "failed"
        /\ ~Compared
        /\ Len(calls) = 1
        /\ calls[1].subject = ErrorSubject

\* C12: no step removes a persisted file or changes its content.
C12_SnapshotsNeverOverwritten ==
    [][\A r \in dir : r \in dir']_vars

\* the notification call made last was attempted and not delivered
SendFailed ==
    /\ calls # <<>>
    /\ config_file.email_enabled
    /\ ~calls[Len(calls)].sent

\* C13: the browser is opened when a run starts and closed when the run
\* returns, whether it succeeded or failed and whether or not its
\* notification could be sent: while a run is in progress exactly one browser
\* is open, and in the polling loop none is.
C13_SessionScopedToRun ==
    /\ [](Idle => session = 0)
    /\ [](pc = "run" => session = 1)
    /\ [][(pc # "run" /\ pc' = "run") => (session = 0 /\ session' = 1)]_vars
    /\ [][(pc = "run" /\ pc' # "run") => (Idle' /\ session' = 0)]_vars

C13_Witness ==
    /\ Idle
    /\ outcome = "failed"
    /\ SendFailed
    /\ session = 0

\* the step made last in this run was a fetch that returned nothing
EmptyFetch ==
    /\ last.kind \in {"fetch error", "no results"}
    /\ last.run = timestamp

\* C14: a fetch that returns an empty result, also after an error inside the
\* scraper, is skipped: the run keeps running with its browser open, no
\* notification is sent, nothing is saved, nothing is added to the digest or
\* to the attachments, and the loop moves on to the next lineage.
C14_EmptyFetchIsNoResults ==
    /\ []((pc = "run" /\ EmptyFetch) =>
            /\ outcome = "running"
            /\ session = 1
            /\ calls = <<>>
            /\ idx >= 2)
    /\ [][(pc = "run" /\ EmptyFetch') =>
            /\ pc' = "run"
            /\ idx' = idx + 1
            /\ outcome' = "running"
            /\ calls' = <<>>
            /\ dir' = dir
            /\ new_items_found' = new_items_found
            /\ notification_body' = notification_body
            /\ attachments' = attachments]_vars

\* the first lineage of the run was skipped and the second one was saved and
\* compared
C14_Witness ==
    /\ pc = "run"
    /\ idx = 3
    /\ Len(attachments) = 1
    /\ Compared
    /\ [cat |-> last.cat, name |-> last.name] = Lineages(config)[2]
    /\ last.output_file \in Files(dir)
    /\ calls = <<>>

\* C15: after a run that ended without failure, every configured lineage
\* has a snapshot file carrying the run's timestamp.
C15_EveryLineagePersisted ==
    (Idle /\ outcome = "success") =>
        \A i \in 1..Len(Lineages(config)) :
            FileName(Lineages(config)[i].cat, Lineages(config)[i].name, timestamp)
                \in Files(dir)

\* C16: a notification that could not be sent changes nothing but the call
\* record: the run ends as it would have ended (a digest belongs to a
\* successful run, an error notification to a failed one), the browser is
\* closed, the process is back in the polling loop with its job registered,
\* and the loop goes on polling and starts the job when it is due.
C16_NotificationFailureNotEscalated ==
    /\ [](SendFailed =>
            /\ Idle
            /\ session = 0
            /\ job.registered
            /\ Len(calls) = 1
            /\ outcome = IF calls[1].subject = UpdateSubject
                         THEN "success" ELSE "failed")
    /\ [][(pc = "run" /\ SendFailed') =>
            job' = IF caller = "main" THEN job
                   ELSE [job EXCEPT !.next_run =
                             NextDue(job.frequency, job.time, now')]]_vars
    /\ [][(SendFailed /\ pc = "poll") =>
            IF now >= job.next_run
            THEN pc' \in {"run", "crashed"} /\ caller' = "run_pending"
            ELSE pc' = "sleep"]_vars
    /\ [][(SendFailed /\ pc = "sleep") => (pc' = "poll" /\ SendFailed')]_vars

\* a digest that could not be sent, after a run that succeeded
C16_Witness ==
    /\ SendFailed
    /\ outcome = "success"
    /\ calls[1].subject = UpdateSubject
    /\ pc = "poll"
    /\ now >= job.next_run

\* u is a trigger time of job j: its time of day, on Monday if weekly
IsTrigger(j, u) ==
    /\ u % SlotsPerDay = j.time % SlotsPerDay
    /\ j.frequency = "weekly" => (u \div SlotsPerDay) % DaysPerWeek = Monday

\* the first trigger time of job j after t
FirstTriggerAfter(j, t) ==
    CHOOSE u \in (t + 1)..(t + SlotsPerDay * DaysPerWeek) :
        /\ IsTrigger(j, u)
        /\ \A v \in (t + 1)..(u - 1) : ~IsTrigger(j, v)

\* a run is started by this step
RunStarts == pc \notin {"run", "crashed"} /\ pc' \in {"run", "crashed"}

\* C17: main() registers the job with the configured time (weekly only for
\* "weekly"), runs the job once before the first poll, and never again
\* outside the loop.  In the loop a run starts only at a poll at which the
\* job is due, and a poll at which the job is due starts a run; the job is
\* always due at a trigger time, and while the process waits no trigger time
\* lies between the clock and the time the job is due.
C17_StartupRunThenTriggers ==
    /\ [][pc = "main" =>
            /\ pc' = "initial"
            /\ job'.registered
            /\ job'.time = config_file.time
            /\ job'.frequency = IF config_file.frequency = "weekly"
                                THEN "weekly" ELSE "daily"]_vars
    /\ [][pc = "initial" => (RunStarts /\ caller' = "main" /\ now' = now)]_vars
    /\ [][pc' = "initial" => pc \in {"main", "initial"}]_vars
    /\ [][RunStarts =>
            IF pc = "initial" THEN caller' = "main"
            ELSE /\ pc = "poll"
                 /\ now >= job.next_run
                 /\ caller' = "run_pending"]_vars
    /\ [][(pc = "poll" /\ now >= job.next_run) => RunStarts]_vars
    /\ [](job.registered => IsTrigger(job, job.next_run))
    /\ []((Idle /\ now < job.next_run) =>
            \A u \in (now + 1)..(job.next_run - 1) : ~IsTrigger(job, u))

\* a run started by the loop at the very tick of the weekly trigger
C17_Witness ==
    /\ pc = "run"
    /\ caller = "run_pending"
    /\ job.frequency = "weekly"
    /\ TickOf(timestamp) = job.next_run

\* the trigger times up to tick t for which the job is still due
Elapsed(t) == {u \in 0..t : IsTrigger(job, u) /\ u >= job.next_run}

\* C18: the job is first due at the first trigger time after startup, so
\* trigger times before startup start nothing and the loop starts no run
\* before that time; when a run started by the loop returns, the job is due
\* at the first trigger time after the return, however many trigger times
\* elapsed before; the startup run leaves the job as registered.
C18_NoBackfill ==
    /\ [][pc = "main" =>
            /\ job'.next_run > now
            /\ job'.next_run = FirstTriggerAfter(job', now)]_vars
    /\ [][(pc = "run" /\ pc' # "run" /\ caller = "main") => job' = job]_vars
    /\ [][(RunStarts /\ caller' = "run_pending" /\ caller = "main") =>
            now >= FirstTriggerAfter(job, 0)]_vars
    /\ [][(pc = "run" /\ pc' # "run" /\ caller = "run_pending") =>
            /\ job'.next_run > now'
            /\ job'.next_run = FirstTriggerAfter(job, now')
            /\ Elapsed(now)' = {}]_vars

\* a run started by the loop after two trigger times had elapsed
C18_Witness ==
    /\ pc = "run"
    /\ caller = "run_pending"
    /\ Cardinality(Elapsed(TickOf(timestamp))) >= 2

\* C19: a run that fails returns to the polling loop with the job scheduled
\* as after any run (unchanged after the startup run, at the first trigger
\* time after the return otherwise); after a failed run the loop starts a
\* run only at a poll at which the job is due, and while it sleeps the job
\* is not due.
C19_FailedRunNotRetried ==
    /\ [][(pc = "run" /\ outcome' = "failed") =>
            /\ Idle'
            /\ job' = IF caller = "main" THEN job
                      ELSE [job EXCEPT !.next_run = FirstTriggerAfter(job, now')]]_vars
    /\ [][(outcome = "failed" /\ RunStarts) =>
            /\ pc = "poll"
            /\ now >= job.next_run
            /\ IsTrigger(job, job.next_run)]_vars
    /\ []((outcome = "failed" /\ pc = "sleep") => now < job.next_run)

\* the loop waits for the next trigger after a run it started has failed
C19_Witness ==
    /\ pc = "sleep"
    /\ outcome = "failed"
    /\ caller = "run_pending"
    /\ now < job.next_run

\* C20: at most one browser is open, and one is open only while a run is in
\* progress; a run starts only from main() before the loop or from a poll,
\* never while a run is in progress; within a run each step handles exactly
\* the next lineage, with the same browser, timestamp and caller.
C20_OneRunOneSession ==
    /\ [](session \in {0, 1})
    /\ [](session = 1 => pc = "run")
    /\ [][(outcome' = "running" /\ pc' = "run" /\ idx' = 1) =>
            /\ pc \in {"initial", "poll"}
            /\ session = 0]_vars
    /\ [][(pc = "run" /\ pc' = "run") =>
            /\ idx' = idx + 1
            /\ session' = session
            /\ timestamp' = timestamp
            /\ caller' = caller
            /\ config' = config]_vars

\* the job became due while the startup run was still processing lineages
C20_Witness ==
    /\ pc = "run"
    /\ caller = "main"
    /\ idx >= 2
    /\ now >= job.next_run
    /\ session = 1

\* C21: every run works on the configuration that config.json held when the
\* process started, and a notification is delivered only if that
\* configuration enables e-mail, whatever config.json holds later.
C21_ConfigStaticAfterStartup ==
    /\ pc = "run" => config = StartupConfig
    /\ \A i \in 1..Len(calls) : calls[i].sent => StartupConfig.email_enabled

\* the files of directory d that the scan for (prefix, output_file) accepts
Candidates(d, prefix, output_file) ==
    {f \in Files(d) : StartsWith(f, prefix) /\ EndsWithCsv(f) /\ f # output_file}

\* C22: whatever order the directory listing has, the scan resolves the same
\* previous file: none when no file matches, and otherwise the matching file
\* whose timestamp part is greater than that of every other matching file.
C22_ScanIndependentOfListingOrder ==
    pc = "scanned" =>
        LET prefix == Prefix(last.cat, last.name)
            C == Candidates(dir, prefix, last.output_file)
        IN /\ \A p \in Perms(Files(dir)) :
                ScanListing(p, prefix, last.output_file, NoFile) = last.previous_file
           /\ IF C = {} THEN last.previous_file = NoFile
              ELSE /\ last.previous_file \in C
                   /\ \A g \in C \ {last.previous_file} :
                        StrGreater(file_timestamp(last.previous_file, prefix),
                                   file_timestamp(g, prefix))

\* a scan over a directory in which MaxFiles files match
C22_Witness ==
    /\ pc = "scanned"
    /\ Cardinality(Candidates(dir, Prefix(last.cat, last.name), last.output_file))
         = MaxFiles
    /\ last.previous_file # NoFile

\* C23: a run that aborted has made one call, the error notification, which
\* carries the error text and no attachment, so nothing the run had found;
\* and when the next run fetches for the first lineage the very listing that
\* the aborted run persisted, it compares it with that snapshot and finds
\* nothing new.
C23_AbortedRunRecordsNeverReported ==
    /\ (Idle /\ outcome = "failed") =>
           /\ Len(calls) = 1
           /\ calls[1].subject = ErrorSubject
           /\ calls[1].body = <<"listdir">>
           /\ calls[1].attachments = <<>>
    /\ (/\ pc = "run"
        /\ Compared
        /\ [cat |-> last.cat, name |-> last.name] = Lineages(AbortConfig)[1]
        /\ FailedSnapshot \in Files(dir)
        /\ SnapshotTicks(dir, last.cat, last.name) \subseteq {0, TickOf(timestamp)}
        /\ last.readOk
        /\ last.results = RowsOf(dir, FailedSnapshot)) =>
           /\ last.kind = "diff"
           /\ last.previous_file = FailedSnapshot
           /\ last.new_items = <<>>

\* the lineage step made last in this run compared against an existing
\* previous file and the comparison raised
CompareFailed ==
    /\ last.kind = "diff"
    /\ last.run = timestamp
    /\ last.previous_file \in Files(dir)
    /\ ~last.readOk

\* C24: when the comparison with an existing previous file raises, the
\* lineage has no new items: nothing is added to the digest and
\* new_items_found is left as it was, the snapshot stays among the
\* attachments, no notification is made and the run goes on to the next
\* lineage.
C24_CompareFailureIsNoNewRecords ==
    /\ []((pc = "run" /\ CompareFailed) =>
            /\ last.new_items = <<>>
            /\ outcome = "running"
            /\ calls = <<>>
            /\ session = 1)
    /\ [][(pc = "run" /\ CompareFailed' /\ idx' # idx) =>
            /\ pc' = "run"
            /\ idx' = idx + 1
            /\ new_items_found' = new_items_found
            /\ notification_body' = notification_body
            /\ attachments' = Append(attachments, last'.output_file)]_vars

\* a run whose only comparison so far raised, with records fetched
C24_Witness ==
    /\ pc = "run"
    /\ CompareFailed
    /\ last.results # <<>>
    /\ ~new_items_found
    /\ notification_body = <<>>

\* C25: during a run every attachment is a file of the directory written in
\* this run; a step that saves a snapshot appends exactly that file and no
\* other step changes the list; the digest carries the whole list and the
\* error notification carries none.
C25_AttachmentsAreFilesWritten ==
    /\ [](pc = "run" =>
            \A i \in 1..Len(attachments) :
                /\ attachments[i] \in Files(dir)
                /\ \E j \in 1..Len(Lineages(config)) :
                     attachments[i] = FileName(Lineages(config)[j].cat,
                                               Lineages(config)[j].name, timestamp))
    /\ [][(pc = "run" /\ pc' = "run") =>
            attachments' = IF Compared' /\ idx' = idx + 1
                           THEN Append(attachments,
                                       FileName(Current.cat, Current.name, timestamp))
                           ELSE attachments]_vars
    /\ [][(pc = "run" /\ pc' # "run") =>
            \A i \in 1..Len(calls') :
                calls'[i].attachments = IF calls'[i].subject = UpdateSubject
                                        THEN attachments ELSE <<>>]_vars

\* C26: for every frequency, setup_schedule registers one job: weekly for
\* "weekly" and daily for every other value, at the configured time; the job
\* is due at the first trigger time after startup (a Monday if weekly) and
\* recurs one period later.
C26_OneTriggerForEveryFrequency ==
    pc = "initial" =>
        LET expected == IF config_file.frequency = "weekly" THEN "weekly" ELSE "daily"
            period == SlotsPerDay * (IF expected = "weekly" THEN DaysPerWeek ELSE 1)
        IN /\ registered_jobs(config_file, now) = <<job>>
           /\ job.registered
           /\ job.frequency = expected
           /\ job.time = config_file.time
           /\ job.next_run = FirstTriggerAfter(job, now)
           /\ job.next_run % SlotsPerDay = config_file.time
           /\ expected = "weekly" => (job.next_run \div SlotsPerDay) % DaysPerWeek = Monday
           /\ NextDue(job.frequency, job.time, job.next_run) = job.next_run + period

\* an unknown frequency registered as a daily job
C26_Witness ==
    /\ pc = "initial"
    /\ config_file.frequency = "hourly"
    /\ job.registered
    /\ job.frequency = "daily"
    /\ job.next_run - now <= SlotsPerDay

====
